---- MODULE Spec2Model ----
(***************************************************************************)
(* Model of src/lib/calculations.ts: the calculation, formatting, tiering  *)
(* and opacity functions behind the "is it worth the time" grid.           *)
(*                                                                         *)
(* A JavaScript number is modelled as a record [k, n, d]:                  *)
(*   k = "fin"  the exact rational n/d, d > 0, in lowest terms;            *)
(*   k = "inf"  +Infinity (n = 1) or -Infinity (n = -1);                   *)
(*   k = "nan"  NaN.                                                       *)
(* Finite arithmetic is exact (IEEE rounding and overflow are not          *)
(* modelled); Math.log is a four-decimal fixed-point approximation.        *)
(* A string is a sequence of one-character strings.                        *)
(***************************************************************************)
EXTENDS Integers, Sequences, FiniteSets

----------------------------------------------------------------------------
(* Numbers *)

Abs(i) == IF i < 0 THEN -i ELSE i

RECURSIVE Gcd(_, _)
Gcd(a, b) == IF b = 0 THEN a ELSE Gcd(b, a % b)

\* the finite number n/d (d # 0) in lowest terms with a positive denominator
Fin(n, d) ==
    LET g == Gcd(Abs(n), Abs(d))
        s == IF d < 0 THEN -1 ELSE 1
    IN [k |-> "fin", n |-> s * (n \div g), d |-> s * (d \div g)]

Num(i) == [k |-> "fin", n |-> i, d |-> 1]
NaN == [k |-> "nan", n |-> 0, d |-> 1]
PosInf == [k |-> "inf", n |-> 1, d |-> 1]
NegInf == [k |-> "inf", n |-> -1, d |-> 1]

IsFin(x) == x.k = "fin"
IsNaN(x) == x.k = "nan"
Sign(x) == IF x.n > 0 THEN 1 ELSE IF x.n < 0 THEN -1 ELSE 0

\* Math.floor of a finite number, as an integer
Floor(x) == x.n \div x.d

\* x < y on finite numbers: whole parts first, then the fractional parts
FinLess(x, y) ==
    LET fx == Floor(x)
        fy == Floor(y)
    IN IF fx # fy THEN fx < fy
       ELSE (x.n - fx * x.d) * y.d < (y.n - fy * y.d) * x.d

\* the relational operators of the language: every comparison with NaN is false
Lt(x, y) ==
    IF IsNaN(x) \/ IsNaN(y) THEN FALSE
    ELSE IF IsFin(x) /\ IsFin(y) THEN FinLess(x, y)
    ELSE IF IsFin(x) THEN y.n > 0
    ELSE IF IsFin(y) THEN x.n < 0
    ELSE x.n < y.n
Gt(x, y) == Lt(y, x)
Ge(x, y) == ~IsNaN(x) /\ ~IsNaN(y) /\ ~Lt(x, y)
Le(x, y) == Ge(y, x)

\* x * y
Mul(x, y) ==
    IF IsNaN(x) \/ IsNaN(y) THEN NaN
    ELSE IF IsFin(x) /\ IsFin(y) THEN
        LET g1 == Gcd(Abs(x.n), y.d)
            g2 == Gcd(Abs(y.n), x.d)
        IN Fin((x.n \div g1) * (y.n \div g2), (x.d \div g2) * (y.d \div g1))
    ELSE IF Sign(x) * Sign(y) = 0 THEN NaN
    ELSE IF Sign(x) * Sign(y) > 0 THEN PosInf ELSE NegInf

\* x / y (the sign of a zero divisor is taken as positive)
Div(x, y) ==
    IF IsNaN(x) \/ IsNaN(y) THEN NaN
    ELSE IF IsFin(x) /\ IsFin(y) THEN
        IF y.n = 0
        THEN (IF x.n = 0 THEN NaN ELSE IF x.n > 0 THEN PosInf ELSE NegInf)
        ELSE Mul(x, Fin(y.d, y.n))
    ELSE IF IsFin(x) THEN Num(0)
    ELSE IF IsFin(y) THEN (IF Sign(x) * (IF y.n < 0 THEN -1 ELSE 1) > 0
                           THEN PosInf ELSE NegInf)
    ELSE NaN

\* x + y
Add(x, y) ==
    IF IsNaN(x) \/ IsNaN(y) THEN NaN
    ELSE IF IsFin(x) /\ IsFin(y) THEN
        LET g == Gcd(x.d, y.d)
        IN Fin(x.n * (y.d \div g) + y.n * (x.d \div g), (x.d \div g) * y.d)
    ELSE IF IsFin(x) THEN y
    ELSE IF IsFin(y) THEN x
    ELSE IF x.n = y.n THEN x ELSE NaN

Neg(x) == [x EXCEPT !.n = -x.n]

\* x - y
Sub(x, y) == Add(x, Neg(y))

\* Math.min(x, y) and Math.max(x, y): NaN when either argument is NaN
MathMin(x, y) == IF IsNaN(x) \/ IsNaN(y) THEN NaN ELSE IF Lt(y, x) THEN y ELSE x
MathMax(x, y) == IF IsNaN(x) \/ IsNaN(y) THEN NaN ELSE IF Lt(x, y) THEN y ELSE x

\* Math.floor in the place of Math.round
MathRound_Floor(x) == Floor(x)

\* Math.round(x) of a finite number: the nearest integer, ties towards +Infinity
MathRound(x) == Floor(Add(x, Fin(1, 2)))

----------------------------------------------------------------------------
(* Math.log *)

\* the fixed-point scale of the logarithm: four decimals
LogScale == 10 ^ 4

\* the k with 2^k <= n/d < 2^(k+1), for n, d > 0
RECURSIVE Exponent(_, _)
Exponent(n, d) ==
    IF n >= 2 * d THEN 1 + Exponent(n, 2 * d)
    ELSE IF n < d THEN Exponent(2 * n, d) - 1
    ELSE 0

Pow2(k) == 2 ^ k

\* floor(a * LogScale / b) for 0 <= a < b, halving both while b is large
RECURSIVE FixDiv(_, _)
FixDiv(a, b) ==
    IF b > 200000 THEN FixDiv(a \div 2, b \div 2)
    ELSE (a * LogScale) \div b

\* ln(n/d) * LogScale for n, d > 0: ln x = k ln 2 + 2 atanh((m-1)/(m+1)),
\* where x = m * 2^k and 1 <= m < 2
LnFixed(n, d) ==
    LET k == Exponent(n, d)
        a == IF k >= 0 THEN n ELSE n * Pow2(-k)
        b == IF k >= 0 THEN d * Pow2(k) ELSE d
        y == FixDiv(a - b, a + b)
        y2 == (y * y) \div LogScale
        y3 == (y * y2) \div LogScale
        y5 == (y3 * y2) \div LogScale
        y7 == (y5 * y2) \div LogScale
    IN (k * 69315) \div 10 + 2 * (y + y3 \div 3 + y5 \div 5 + y7 \div 7)

\* Math.log(x): NaN below zero, -Infinity at zero
MathLog(x) ==
    IF IsNaN(x) THEN NaN
    ELSE IF ~IsFin(x) THEN (IF x.n > 0 THEN PosInf ELSE NaN)
    ELSE IF x.n < 0 THEN NaN
    ELSE IF x.n = 0 THEN NegInf
    ELSE Fin(LnFixed(x.n, x.d), LogScale)

----------------------------------------------------------------------------
(* Strings *)

Digit(i) == <<"0", "1", "2", "3", "4", "5", "6", "7", "8", "9">>[i + 1]

RECURSIVE NatToString(_)
NatToString(i) ==
    IF i < 10 THEN <<Digit(i)>> ELSE NatToString(i \div 10) \o <<Digit(i % 10)>>

\* String(i) of an integer-valued number
IntToString(i) == IF i < 0 THEN <<"-">> \o NatToString(-i) ELSE NatToString(i)

\* i written with at least f digits
RECURSIVE PadLeft(_, _)
PadLeft(s, f) == IF Len(s) >= f THEN s ELSE PadLeft(<<"0">> \o s, f)

\* x.toFixed(f) of a finite number: f decimals, ties away from zero
toFixed(x, f) ==
    LET ax == [x EXCEPT !.n = Abs(x.n)]
        scaled == Floor(Add(Mul(ax, Num(10 ^ f)), Fin(1, 2)))
        whole == NatToString(scaled \div (10 ^ f))
        frac == PadLeft(NatToString(scaled % (10 ^ f)), f)
    IN (IF x.n < 0 THEN <<"-">> ELSE <<>>)
       \o whole \o (IF f = 0 THEN <<>> ELSE <<".">> \o frac)

\* s.replace(/\.0$/, '')
StripDotZero(s) ==
    IF Len(s) >= 2 /\ s[Len(s) - 1] = "." /\ s[Len(s)] = "0"
    THEN SubSeq(s, 1, Len(s) - 2)
    ELSE s

----------------------------------------------------------------------------
(* src/lib/calculations.ts *)

WORK_HOURS_PER_YEAR == 8 * 250
WORK_DAYS_PER_YEAR == 250

\* the multipliers of the frequency columns
frequencies == <<50 * 250, 5 * 250, 250, 50, 12, 1>>

\* the seconds of the time-saved rows
timeSavings == <<1, 5, 30, 60, 5 * 60, 30 * 60, 60 * 60, 4 * 60 * 60, 8 * 60 * 60>>

\* the period divisor applied to the wrong period
calculateCellValue_DivisorSwapped(salary, freqMultiplier, timeSeconds, period) ==
    LET hourlyRate == Div(salary, Num(WORK_HOURS_PER_YEAR))
        rawSecondsPerYear == Mul(freqMultiplier, timeSeconds)
        totalHoursPerYear == Div(rawSecondsPerYear, Num(3600))
        annualValue == Mul(hourlyRate, totalHoursPerYear)
        periodDivisor == IF period = "monthly" THEN 1 ELSE 12
    IN Div(annualValue, Num(periodDivisor))

calculateCellValue(salary, freqMultiplier, timeSeconds, period) ==
    LET hourlyRate == Div(salary, Num(WORK_HOURS_PER_YEAR))
        rawSecondsPerYear == Mul(freqMultiplier, timeSeconds)
        totalHoursPerYear == Div(rawSecondsPerYear, Num(3600))
        annualValue == Mul(hourlyRate, totalHoursPerYear)
        periodDivisor == IF period = "monthly" THEN 12 ELSE 1
    IN Div(annualValue, Num(periodDivisor))

calculateTimeValue(freqMultiplier, timeSeconds, period) ==
    LET rawSecondsPerYear == Mul(freqMultiplier, timeSeconds)
        periodDivisor == IF period = "monthly" THEN 12 ELSE 1
    IN Div(rawSecondsPerYear, Num(periodDivisor))

\* the millions band formatted to one decimal, as the thousands band is
formatCurrency_MillionsOneDecimal(value, symbol) ==
    IF Ge(value, Num(1000000000)) THEN
        symbol \o IntToString(MathRound(Div(value, Num(1000000000)))) \o <<"B">>
    ELSE IF Ge(value, Num(10000000)) THEN
        symbol \o IntToString(MathRound(Div(value, Num(1000000)))) \o <<"M">>
    ELSE IF Ge(value, Num(1000000)) THEN
        symbol \o StripDotZero(toFixed(Div(value, Num(1000000)), 1)) \o <<"M">>
    ELSE IF Ge(value, Num(10000)) THEN
        symbol \o IntToString(MathRound(Div(value, Num(1000)))) \o <<"k">>
    ELSE IF Ge(value, Num(1000)) THEN
        symbol \o StripDotZero(toFixed(Div(value, Num(1000)), 1)) \o <<"k">>
    ELSE IF Ge(value, Num(1)) THEN
        symbol \o IntToString(MathRound(value))
    ELSE IF Ge(value, Fin(1, 10)) THEN
        symbol \o toFixed(value, 2)
    ELSE symbol \o <<"0">>

formatCurrency(value, symbol) ==
    IF Ge(value, Num(1000000000)) THEN
        symbol \o IntToString(MathRound(Div(value, Num(1000000000)))) \o <<"B">>
    ELSE IF Ge(value, Num(10000000)) THEN
        symbol \o IntToString(MathRound(Div(value, Num(1000000)))) \o <<"M">>
    ELSE IF Ge(value, Num(1000000)) THEN
        symbol \o StripDotZero(toFixed(Div(value, Num(1000000)), 0)) \o <<"M">>
    ELSE IF Ge(value, Num(10000)) THEN
        symbol \o IntToString(MathRound(Div(value, Num(1000)))) \o <<"k">>
    ELSE IF Ge(value, Num(1000)) THEN
        symbol \o StripDotZero(toFixed(Div(value, Num(1000)), 1)) \o <<"k">>
    ELSE IF Ge(value, Num(1)) THEN
        symbol \o IntToString(MathRound(value))
    ELSE IF Ge(value, Fin(1, 10)) THEN
        symbol \o toFixed(value, 2)
    ELSE symbol \o <<"0">>

\* the weeks band tested before the years band
formatTime_WeeksBeforeYears(totalSeconds) ==
    LET SECONDS_PER_MINUTE == 60
        SECONDS_PER_HOUR == 60 * SECONDS_PER_MINUTE
        SECONDS_PER_DAY == 8 * SECONDS_PER_HOUR
        SECONDS_PER_WEEK == 5 * SECONDS_PER_DAY
        SECONDS_PER_YEAR == 250 * SECONDS_PER_DAY
    IN
    IF Lt(totalSeconds, Num(1)) THEN <<"<", "1", "s">>
    ELSE IF Ge(totalSeconds, Mul(Num(SECONDS_PER_DAY), Num(4))) THEN
        IntToString(MathRound(Div(totalSeconds, Num(SECONDS_PER_WEEK)))) \o <<"w">>
    ELSE IF Ge(totalSeconds, Mul(Num(SECONDS_PER_YEAR), Fin(75, 100))) THEN
        IntToString(MathRound(Div(totalSeconds, Num(SECONDS_PER_YEAR)))) \o <<"y">>
    ELSE IF Ge(totalSeconds, Mul(Num(SECONDS_PER_DAY), Fin(15, 10))) THEN
        IntToString(MathRound(Div(totalSeconds, Num(SECONDS_PER_DAY)))) \o <<"d">>
    ELSE IF Ge(totalSeconds, Mul(Num(SECONDS_PER_DAY), Fin(75, 100))) THEN
        <<"1", "d">>
    ELSE IF Ge(totalSeconds, Mul(Num(SECONDS_PER_HOUR), Num(2))) THEN
        IntToString(MathRound(Div(totalSeconds, Num(SECONDS_PER_HOUR)))) \o <<"h">>
    ELSE IF Ge(totalSeconds, Mul(Num(SECONDS_PER_HOUR), Fin(75, 100))) THEN
        <<"1", "h">>
    ELSE IF Ge(totalSeconds, Mul(Num(SECONDS_PER_MINUTE), Num(2))) THEN
        IntToString(MathRound(Div(totalSeconds, Num(SECONDS_PER_MINUTE)))) \o <<"m">>
    ELSE IF Ge(totalSeconds, Mul(Num(SECONDS_PER_MINUTE), Fin(75, 100))) THEN
        <<"1", "m">>
    ELSE IntToString(MathRound(totalSeconds)) \o <<"s">>

formatTime(totalSeconds) ==
    LET SECONDS_PER_MINUTE == 60
        SECONDS_PER_HOUR == 60 * SECONDS_PER_MINUTE
        SECONDS_PER_DAY == 8 * SECONDS_PER_HOUR
        SECONDS_PER_WEEK == 5 * SECONDS_PER_DAY
        SECONDS_PER_YEAR == 250 * SECONDS_PER_DAY
    IN
    IF Lt(totalSeconds, Num(1)) THEN <<"<", "1", "s">>
    ELSE IF Ge(totalSeconds, Mul(Num(SECONDS_PER_YEAR), Fin(75, 100))) THEN
        IntToString(MathRound(Div(totalSeconds, Num(SECONDS_PER_YEAR)))) \o <<"y">>
    ELSE IF Ge(totalSeconds, Mul(Num(SECONDS_PER_DAY), Num(4))) THEN
        IntToString(MathRound(Div(totalSeconds, Num(SECONDS_PER_WEEK)))) \o <<"w">>
    ELSE IF Ge(totalSeconds, Mul(Num(SECONDS_PER_DAY), Fin(15, 10))) THEN
        IntToString(MathRound(Div(totalSeconds, Num(SECONDS_PER_DAY)))) \o <<"d">>
    ELSE IF Ge(totalSeconds, Mul(Num(SECONDS_PER_DAY), Fin(75, 100))) THEN
        <<"1", "d">>
    ELSE IF Ge(totalSeconds, Mul(Num(SECONDS_PER_HOUR), Num(2))) THEN
        IntToString(MathRound(Div(totalSeconds, Num(SECONDS_PER_HOUR)))) \o <<"h">>
    ELSE IF Ge(totalSeconds, Mul(Num(SECONDS_PER_HOUR), Fin(75, 100))) THEN
        <<"1", "h">>
    ELSE IF Ge(totalSeconds, Mul(Num(SECONDS_PER_MINUTE), Num(2))) THEN
        IntToString(MathRound(Div(totalSeconds, Num(SECONDS_PER_MINUTE)))) \o <<"m">>
    ELSE IF Ge(totalSeconds, Mul(Num(SECONDS_PER_MINUTE), Fin(75, 100))) THEN
        <<"1", "m">>
    ELSE IntToString(MathRound(totalSeconds)) \o <<"s">>

getCurrencyTier(value, salary) ==
    LET ratio == Mul(Num(100000), Div(value, salary))
    IN IF Lt(ratio, Num(10)) THEN "tier-1"
       ELSE IF Lt(ratio, Num(100)) THEN "tier-2"
       ELSE IF Lt(ratio, Num(1000)) THEN "tier-3"
       ELSE IF Lt(ratio, Num(10000)) THEN "tier-4"
       ELSE "tier-5"

\* the hours tier ending at 23040 s in the place of 0.75 day
getTimeTier_DayEdge23040(displaySeconds) ==
    LET SECONDS_PER_MINUTE == 60
        SECONDS_PER_HOUR == 3600
        SECONDS_PER_DAY == 28800
    IN IF Lt(displaySeconds, Mul(Num(SECONDS_PER_MINUTE), Fin(75, 100))) THEN "tier-1"
       ELSE IF Lt(displaySeconds, Mul(Num(SECONDS_PER_HOUR), Fin(75, 100))) THEN "tier-2"
       ELSE IF Lt(displaySeconds, Num(23040)) THEN "tier-3"
       ELSE IF Lt(displaySeconds, Mul(Num(SECONDS_PER_DAY), Num(4))) THEN "tier-4"
       ELSE "tier-5"

\* the seconds tier including its upper edge
getTimeTier_Inclusive(displaySeconds) ==
    LET SECONDS_PER_MINUTE == 60
        SECONDS_PER_HOUR == 3600
        SECONDS_PER_DAY == 28800
    IN IF Le(displaySeconds, Mul(Num(SECONDS_PER_MINUTE), Fin(75, 100))) THEN "tier-1"
       ELSE IF Lt(displaySeconds, Mul(Num(SECONDS_PER_HOUR), Fin(75, 100))) THEN "tier-2"
       ELSE IF Lt(displaySeconds, Mul(Num(SECONDS_PER_DAY), Fin(75, 100))) THEN "tier-3"
       ELSE IF Lt(displaySeconds, Mul(Num(SECONDS_PER_DAY), Num(4))) THEN "tier-4"
       ELSE "tier-5"

getTimeTier(displaySeconds) ==
    LET SECONDS_PER_MINUTE == 60
        SECONDS_PER_HOUR == 3600
        SECONDS_PER_DAY == 28800
    IN IF Lt(displaySeconds, Mul(Num(SECONDS_PER_MINUTE), Fin(75, 100))) THEN "tier-1"
       ELSE IF Lt(displaySeconds, Mul(Num(SECONDS_PER_HOUR), Fin(75, 100))) THEN "tier-2"
       ELSE IF Lt(displaySeconds, Mul(Num(SECONDS_PER_DAY), Fin(75, 100))) THEN "tier-3"
       ELSE IF Lt(displaySeconds, Mul(Num(SECONDS_PER_DAY), Num(4))) THEN "tier-4"
       ELSE "tier-5"

getCurrencyOpacity(value, salary) ==
    LET HIGH_FADE_START == Mul(salary, Fin(5, 100))
        HIGH_FADE_END == Mul(salary, Num(2))
        highRaw == Sub(Num(1),
                       Div(Sub(MathLog(value), MathLog(HIGH_FADE_START)),
                           Sub(MathLog(HIGH_FADE_END), MathLog(HIGH_FADE_START))))
        highOpacity == MathMin(Num(1), MathMax(Fin(2, 10), highRaw))
        LOW_FADE_START == 5
        LOW_FADE_END == 1
        lowRaw == Div(Sub(value, Num(LOW_FADE_END)), Num(LOW_FADE_START - LOW_FADE_END))
        lowOpacity == IF Lt(value, Num(LOW_FADE_START))
                      THEN MathMin(Num(1), MathMax(Fin(2, 10), lowRaw))
                      ELSE Num(1)
    IN MathMin(highOpacity, lowOpacity)

getTimeOpacity(seconds) ==
    LET SECONDS_PER_DAY == 28800
        SECONDS_PER_WEEK == SECONDS_PER_DAY * 5
        SECONDS_PER_YEAR == SECONDS_PER_DAY * 250
        LOW_FADE_START == 60
        LOW_FADE_END == 1
        lowRaw == Div(Sub(seconds, Num(LOW_FADE_END)), Num(LOW_FADE_START - LOW_FADE_END))
        lowOpacity == IF Lt(seconds, Num(LOW_FADE_START))
                      THEN MathMin(Num(1), MathMax(Fin(2, 10), lowRaw))
                      ELSE Num(1)
        HIGH_FADE_START == SECONDS_PER_WEEK * 4
        HIGH_FADE_END == SECONDS_PER_YEAR
        highRaw == Sub(Num(1),
                       Div(Sub(MathLog(seconds), MathLog(Num(HIGH_FADE_START))),
                           Sub(MathLog(Num(HIGH_FADE_END)), MathLog(Num(HIGH_FADE_START)))))
        highOpacity == IF Gt(seconds, Num(HIGH_FADE_START))
                       THEN MathMin(Num(1), MathMax(Fin(2, 10), highRaw))
                       ELSE Num(1)
    IN MathMin(lowOpacity, highOpacity)

\* the character U+2014 (em dash), which the module's character set lacks
EmDash == "U+2014"

\* one invocation of a function of the module, with its first argument
Call(fn, arg) == [fn |-> fn, arg |-> arg]

\* salary >= 0 in the place of salary > 0
getCellDisplay_ZeroSalaryFormatted(salary, freqMultiplier, timeSeconds, period, mode, currencySymbol) ==
    LET displayMoney == calculateCellValue(salary, freqMultiplier, timeSeconds, period)
        annualValue == calculateCellValue(salary, freqMultiplier, timeSeconds, "annual")
        displaySeconds == calculateTimeValue(freqMultiplier, timeSeconds, period)
        first == {Call("calculateCellValue", salary), Call("calculateTimeValue", freqMultiplier)}
    IN IF mode = "money" THEN
           [text |-> IF Ge(salary, Num(0))
                     THEN formatCurrency(displayMoney, currencySymbol) ELSE <<EmDash>>,
            opacity |-> IF Ge(salary, Num(0))
                        THEN getCurrencyOpacity(annualValue, salary) ELSE Num(1),
            tier |-> IF Ge(salary, Num(0)) /\ Gt(annualValue, Num(0))
                     THEN getCurrencyTier(annualValue, salary) ELSE "",
            calls |-> first
                \cup (IF Ge(salary, Num(0))
                      THEN {Call("formatCurrency", displayMoney)} ELSE {})
                \cup (IF Ge(salary, Num(0))
                      THEN {Call("getCurrencyOpacity", annualValue)} ELSE {})
                \cup (IF Ge(salary, Num(0)) /\ Gt(annualValue, Num(0))
                      THEN {Call("getCurrencyTier", annualValue)} ELSE {})]
       ELSE
           [text |-> formatTime(displaySeconds),
            opacity |-> getTimeOpacity(displaySeconds),
            tier |-> getTimeTier(displaySeconds),
            calls |-> first \cup {Call("formatTime", displaySeconds),
                                  Call("getTimeOpacity", displaySeconds),
                                  Call("getTimeTier", displaySeconds)}]

\* the tier and the opacity taken from the value of the displayed period
getCellDisplay_PeriodScopedTier(salary, freqMultiplier, timeSeconds, period, mode, currencySymbol) ==
    LET displayMoney == calculateCellValue(salary, freqMultiplier, timeSeconds, period)
        annualValue == calculateCellValue(salary, freqMultiplier, timeSeconds, period)
        displaySeconds == calculateTimeValue(freqMultiplier, timeSeconds, period)
        first == {Call("calculateCellValue", salary), Call("calculateTimeValue", freqMultiplier)}
    IN IF mode = "money" THEN
           [text |-> IF Gt(salary, Num(0))
                     THEN formatCurrency(displayMoney, currencySymbol) ELSE <<EmDash>>,
            opacity |-> IF Gt(salary, Num(0))
                        THEN getCurrencyOpacity(annualValue, salary) ELSE Num(1),
            tier |-> IF Gt(salary, Num(0)) /\ Gt(annualValue, Num(0))
                     THEN getCurrencyTier(annualValue, salary) ELSE "",
            calls |-> first
                \cup (IF Gt(salary, Num(0))
                      THEN {Call("formatCurrency", displayMoney)} ELSE {})
                \cup (IF Gt(salary, Num(0))
                      THEN {Call("getCurrencyOpacity", annualValue)} ELSE {})
                \cup (IF Gt(salary, Num(0)) /\ Gt(annualValue, Num(0))
                      THEN {Call("getCurrencyTier", annualValue)} ELSE {})]
       ELSE
           [text |-> formatTime(displaySeconds),
            opacity |-> getTimeOpacity(displaySeconds),
            tier |-> getTimeTier(displaySeconds),
            calls |-> first \cup {Call("formatTime", displaySeconds),
                                  Call("getTimeOpacity", displaySeconds),
                                  Call("getTimeTier", displaySeconds)}]

\* the returned {text, opacity, tier}, and in calls the invocations made
getCellDisplay(salary, freqMultiplier, timeSeconds, period, mode, currencySymbol) ==
    LET displayMoney == calculateCellValue(salary, freqMultiplier, timeSeconds, period)
        annualValue == calculateCellValue(salary, freqMultiplier, timeSeconds, "annual")
        displaySeconds == calculateTimeValue(freqMultiplier, timeSeconds, period)
        first == {Call("calculateCellValue", salary), Call("calculateTimeValue", freqMultiplier)}
    IN IF mode = "money" THEN
           [text |-> IF Gt(salary, Num(0))
                     THEN formatCurrency(displayMoney, currencySymbol) ELSE <<EmDash>>,
            opacity |-> IF Gt(salary, Num(0))
                        THEN getCurrencyOpacity(annualValue, salary) ELSE Num(1),
            tier |-> IF Gt(salary, Num(0)) /\ Gt(annualValue, Num(0))
                     THEN getCurrencyTier(annualValue, salary) ELSE "",
            calls |-> first
                \cup (IF Gt(salary, Num(0))
                      THEN {Call("formatCurrency", displayMoney)} ELSE {})
                \cup (IF Gt(salary, Num(0))
                      THEN {Call("getCurrencyOpacity", annualValue)} ELSE {})
                \cup (IF Gt(salary, Num(0)) /\ Gt(annualValue, Num(0))
                      THEN {Call("getCurrencyTier", annualValue)} ELSE {})]
       ELSE
           [text |-> formatTime(displaySeconds),
            opacity |-> getTimeOpacity(displaySeconds),
            tier |-> getTimeTier(displaySeconds),
            calls |-> first \cup {Call("formatTime", displaySeconds),
                                  Call("getTimeOpacity", displaySeconds),
                                  Call("getTimeTier", displaySeconds)}]

----------------------------------------------------------------------------
(* The callers: a renderer that calls the exported functions, one call at a *)
(* time, each running to completion                                       *)

VARIABLES
    fn,     \* the exported function called last
    args,   \* its arguments
    ret,    \* what it returned: a record of its text, value, tier or opacity
    calls   \* the invocations it made of other functions of the module

vars == <<fn, args, ret, calls>>

\* how many salaries above zero, in steps of 50000, the callers pass
MaxSalarySteps == 3
\* the sampled arguments of the formatters run from 0 to MaxEighths/8 of each band edge
MaxEighths == 12

Salaries ==
    {Num(-50000), Num(0), Num(1), Num(2000)}
        \cup {Num(50000 * i) : i \in 1..MaxSalarySteps}

Multipliers == {Num(frequencies[i]) : i \in DOMAIN frequencies} \cup {Num(0), Num(-250)}

Durations == {Num(timeSavings[i]) : i \in DOMAIN timeSavings} \cup {Num(0), Num(-60)}

Periods == {"annual", "monthly"}
Modes == {"money", "time"}
Symbols == {<<"$">>, <<"k", "r">>}

\* arguments around e: its eighths up to MaxEighths/8, and a thousandth to either side
Around(e) ==
    {Mul(e, Fin(j, 8)) : j \in 0..MaxEighths}
        \cup {Mul(e, Fin(999, 1000)), Mul(e, Fin(1001, 1000))}

\* seconds around every band edge of formatTime and getTimeTier
SecondsSamples ==
    UNION {Around(Num(e)) : e \in {1, 45, 120, 2700, 7200, 21600, 43200, 115200, 5400000}}
        \cup {Num(-1), Fin(999, 1000), Num(22000), Num(23040)}

\* amounts around every band edge of formatCurrency
MoneySamples ==
    UNION {Around(e) : e \in {Fin(1, 10), Num(1), Num(1000), Num(10000),
                              Num(1000000), Num(10000000), Num(1000000000)}}
        \cup {Num(-1), Num(999), Num(1500), Num(12000), Num(1500000), Num(2000000000)}

\* no call in progress: no arguments and no result
Nothing == [none |-> TRUE]

Init ==
    /\ fn = "none"
    /\ args = Nothing
    /\ ret = Nothing
    /\ calls = {}

GetCellDisplay ==
    /\ fn = "none"
    /\ \E salary \in Salaries, freqMultiplier \in Multipliers, timeSeconds \in Durations,
       period \in Periods, mode \in Modes, currencySymbol \in Symbols :
        LET r == getCellDisplay(salary, freqMultiplier, timeSeconds, period, mode,
                                currencySymbol)
        IN /\ fn' = "getCellDisplay"
           /\ args' = [salary |-> salary, freqMultiplier |-> freqMultiplier,
                       timeSeconds |-> timeSeconds, period |-> period, mode |-> mode,
                       currencySymbol |-> currencySymbol]
           /\ ret' = [text |-> r.text, opacity |-> r.opacity, tier |-> r.tier]
           /\ calls' = r.calls

CalculateCellValue ==
    /\ fn = "none"
    /\ \E salary \in Salaries, freqMultiplier \in Multipliers, timeSeconds \in Durations,
       period \in Periods :
        /\ fn' = "calculateCellValue"
        /\ args' = [salary |-> salary, freqMultiplier |-> freqMultiplier,
                    timeSeconds |-> timeSeconds, period |-> period]
        /\ ret' = [value |-> calculateCellValue(salary, freqMultiplier, timeSeconds, period)]
        /\ calls' = {}

CalculateTimeValue ==
    /\ fn = "none"
    /\ \E freqMultiplier \in Multipliers, timeSeconds \in Durations, period \in Periods :
        /\ fn' = "calculateTimeValue"
        /\ args' = [freqMultiplier |-> freqMultiplier, timeSeconds |-> timeSeconds,
                    period |-> period]
        /\ ret' = [value |-> calculateTimeValue(freqMultiplier, timeSeconds, period)]
        /\ calls' = {}

FormatCurrency ==
    /\ fn = "none"
    /\ \E value \in MoneySamples, symbol \in Symbols :
        /\ fn' = "formatCurrency"
        /\ args' = [value |-> value, symbol |-> symbol]
        /\ ret' = [text |-> formatCurrency(value, symbol)]
        /\ calls' = {}

FormatTime ==
    /\ fn = "none"
    /\ \E totalSeconds \in SecondsSamples :
        /\ fn' = "formatTime"
        /\ args' = [totalSeconds |-> totalSeconds]
        /\ ret' = [text |-> formatTime(totalSeconds)]
        /\ calls' = {}

GetTimeTier ==
    /\ fn = "none"
    /\ \E displaySeconds \in SecondsSamples :
        /\ fn' = "getTimeTier"
        /\ args' = [displaySeconds |-> displaySeconds]
        /\ ret' = [tier |-> getTimeTier(displaySeconds)]
        /\ calls' = {}

\* the call has run to completion and the caller has taken its result
Return ==
    /\ fn # "none"
    /\ fn' = "none"
    /\ args' = Nothing
    /\ ret' = Nothing
    /\ calls' = {}

Next ==
    \/ GetCellDisplay
    \/ CalculateCellValue
    \/ CalculateTimeValue
    \/ FormatCurrency
    \/ FormatTime
    \/ GetTimeTier
    \/ Return

Spec == Init /\ [][Next]_vars

----------------------------------------------------------------------------
(* Properties *)

Tiers == {"", "tier-1", "tier-2", "tier-3", "tier-4", "tier-5"}

Zero == Num(0)
One == Num(1)

\* the nearest integer to a finite x, halves upwards
Nearest(x) == (2 * x.n + x.d) \div (2 * x.d)

Last(s) == s[Len(s)]
Front(s) == SubSeq(s, 1, Len(s) - 1)

IsDigit(c) == c \in {"0", "1", "2", "3", "4", "5", "6", "7", "8", "9"}
DigitValue(c) == CHOOSE i \in 0..9 : Digit(i) = c

\* the number a non-empty string of digits writes
RECURSIVE ParseNat(_)
ParseNat(s) ==
    IF Len(s) = 1 THEN DigitValue(s[1])
    ELSE 10 * ParseNat(Front(s)) + DigitValue(Last(s))

MoneyCall == fn = "getCellDisplay" /\ args.mode = "money"
TimeCall == fn = "getCellDisplay" /\ args.mode = "time"

\* C1: getCellDisplay returns, for any finite salary, freqMultiplier and
\* timeSeconds (zero and negative included), an opacity in [0.2, 1.0] and a
\* tier among "", "tier-1" .. "tier-5".
C1_OpacityAndTierInRange ==
    fn = "getCellDisplay" =>
        /\ Ge(ret.opacity, Fin(2, 10))
        /\ Le(ret.opacity, One)
        /\ ret.tier \in Tiers

\* C2: in money mode getCellDisplay invokes getCurrencyOpacity only with an
\* annual value above zero (and a salary above zero).
C2_OpacityArgumentPositive ==
    MoneyCall =>
        \A c \in calls :
            c.fn = "getCurrencyOpacity" => Gt(c.arg, Zero) /\ Gt(args.salary, Zero)

\* C3: with salary <= 0, getCellDisplay in money mode returns exactly the
\* em dash, opacity 1 and tier "", and calls none of formatCurrency,
\* getCurrencyOpacity and getCurrencyTier.
C3_NonPositiveSalaryPlaceholder ==
    (MoneyCall /\ Le(args.salary, Zero)) =>
        /\ ret = [text |-> <<EmDash>>, opacity |-> One, tier |-> ""]
        /\ \A c \in calls :
            c.fn \notin {"formatCurrency", "getCurrencyOpacity", "getCurrencyTier"}

C3_Witness ==
    /\ MoneyCall
    /\ Lt(args.salary, Zero)
    /\ Gt(args.freqMultiplier, Zero)
    /\ Gt(args.timeSeconds, Zero)
    /\ ret.text = <<EmDash>>

OtherPeriod(period) == IF period = "annual" THEN "monthly" ELSE "annual"

\* C4: in money mode the tier and the opacity getCellDisplay returns are the
\* same for the annual and the monthly period (only the text may differ).
C4_TierAndOpacityPeriodIndependent ==
    MoneyCall =>
        LET other == getCellDisplay(args.salary, args.freqMultiplier, args.timeSeconds,
                                    OtherPeriod(args.period), "money", args.currencySymbol)
        IN /\ ret.tier = other.tier
           /\ ret.opacity = other.opacity

C4_Witness ==
    /\ MoneyCall
    /\ args.period = "monthly"
    /\ Gt(args.salary, Zero)
    /\ ret.tier = "tier-4"
    /\ Lt(ret.opacity, One)
    /\ ret.text # getCellDisplay(args.salary, args.freqMultiplier, args.timeSeconds,
                                 "annual", "money", args.currencySymbol).text

\* the tier of the thresholds 45, 2700, edge, 115200, the first match winning
TierByThresholds(displaySeconds, edge) ==
    IF Lt(displaySeconds, Num(45)) THEN "tier-1"
    ELSE IF Lt(displaySeconds, Num(2700)) THEN "tier-2"
    ELSE IF Lt(displaySeconds, Num(edge)) THEN "tier-3"
    ELSE IF Lt(displaySeconds, Num(115200)) THEN "tier-4"
    ELSE "tier-5"

\* C5 as claimed: getTimeTier gives tier-1 below 45, tier-2 below 2700, tier-3
\* below 23040, tier-4 below 115200 and tier-5 otherwise.
C5_AsClaimed ==
    fn = "getTimeTier" => ret.tier = TierByThresholds(args.displaySeconds, 23040)

\* C5 amended: getTimeTier gives tier-1 below 45, tier-2 below 2700, tier-3
\* below 21600 (0.75 of a 28800 s day), tier-4 below 115200 and tier-5 otherwise.
C5_Thresholds ==
    fn = "getTimeTier" => ret.tier = TierByThresholds(args.displaySeconds, 21600)

C5_Witness ==
    /\ fn = "getTimeTier"
    /\ Ge(args.displaySeconds, Num(21600))
    /\ Lt(args.displaySeconds, Num(23040))
    /\ ret.tier = "tier-4"

\* C6: for salary, freqMultiplier and timeSeconds above zero the annual cell
\* value is (salary / 2000) * (freqMultiplier * timeSeconds / 3600), the
\* monthly cell value is the annual one / 12, and the monthly time value is
\* freqMultiplier * timeSeconds / 12.
C6_MonthlyIsAnnualOverTwelve ==
    /\ (/\ fn = "calculateCellValue"
        /\ Gt(args.salary, Zero)
        /\ Gt(args.freqMultiplier, Zero)
        /\ Gt(args.timeSeconds, Zero)) =>
            LET annual == Mul(Div(args.salary, Num(2000)),
                              Div(Mul(args.freqMultiplier, args.timeSeconds), Num(3600)))
            IN /\ args.period = "annual" => ret.value = annual
               /\ args.period = "monthly" =>
                    /\ ret.value = Div(annual, Num(12))
                    /\ ret.value = Div(calculateCellValue(args.salary, args.freqMultiplier,
                                                    args.timeSeconds, "annual"), Num(12))
    /\ (/\ fn = "calculateTimeValue"
        /\ args.period = "monthly"
        /\ Gt(args.freqMultiplier, Zero)
        /\ Gt(args.timeSeconds, Zero)) =>
            ret.value = Div(Mul(args.freqMultiplier, args.timeSeconds), Num(12))

C6_Witness ==
    /\ fn = "calculateCellValue"
    /\ args.salary = Num(100000)
    /\ args.freqMultiplier = Num(250)
    /\ args.timeSeconds = Num(300)
    /\ args.period = "monthly"
    /\ ret.value = Fin(3125, 36)

\* the bands of formatTime as the claim lists them (day 28800 s, week 5 days,
\* year 250 days)
TimeBands(s) ==
    IF Lt(s, One) THEN <<"<", "1", "s">>
    ELSE IF Ge(s, Num(5400000)) THEN IntToString(Nearest(Div(s, Num(7200000)))) \o <<"y">>
    ELSE IF Ge(s, Num(115200)) THEN IntToString(Nearest(Div(s, Num(144000)))) \o <<"w">>
    ELSE IF Ge(s, Num(43200)) THEN IntToString(Nearest(Div(s, Num(28800)))) \o <<"d">>
    ELSE IF Ge(s, Num(21600)) THEN <<"1", "d">>
    ELSE IF Ge(s, Num(7200)) THEN IntToString(Nearest(Div(s, Num(3600)))) \o <<"h">>
    ELSE IF Ge(s, Num(2700)) THEN <<"1", "h">>
    ELSE IF Ge(s, Num(120)) THEN IntToString(Nearest(Div(s, Num(60)))) \o <<"m">>
    ELSE IF Ge(s, Num(45)) THEN <<"1", "m">>
    ELSE IntToString(Nearest(s)) \o <<"s">>

\* C7: for totalSeconds >= 0 formatTime returns the output of the first
\* matching band of the descending chain; 0.999 gives "<1s", 1 gives "1s",
\* 2700 gives "1h", 7200 gives "2h".
C7_FormatTimeBands ==
    (fn = "formatTime" /\ Ge(args.totalSeconds, Zero)) =>
        /\ ret.text = TimeBands(args.totalSeconds)
        /\ args.totalSeconds = Fin(999, 1000) => ret.text = <<"<", "1", "s">>
        /\ args.totalSeconds = Num(1) => ret.text = <<"1", "s">>
        /\ args.totalSeconds = Num(2700) => ret.text = <<"1", "h">>
        /\ args.totalSeconds = Num(7200) => ret.text = <<"2", "h">>

C7_Witness ==
    /\ fn = "formatTime"
    /\ args.totalSeconds = Num(9000)
    /\ ret.text = <<"3", "h">>

\* v * 10^f to the nearest integer, written with f decimals
Decimals(v, f) ==
    LET scaled == Nearest(Mul(v, Num(10 ^ f)))
    IN IntToString(scaled \div (10 ^ f))
       \o (IF f = 0 THEN <<>>
           ELSE <<".">> \o [i \in 1..f |-> Digit((scaled \div (10 ^ (f - i))) % 10)])

\* v to one decimal, a trailing ".0" removed
OneDecimalTrimmed(v) ==
    LET tenths == Nearest(Mul(v, Num(10)))
    IN IF tenths % 10 = 0 THEN IntToString(tenths \div 10) ELSE Decimals(v, 1)

\* the bands of formatCurrency as the claim lists them
MoneyBands(value, symbol) ==
    symbol \o
    (IF Ge(value, Num(1000000000))
        THEN IntToString(Nearest(Div(value, Num(1000000000)))) \o <<"B">>
     ELSE IF Ge(value, Num(10000000))
        THEN IntToString(Nearest(Div(value, Num(1000000)))) \o <<"M">>
     ELSE IF Ge(value, Num(1000000))
        THEN Decimals(Div(value, Num(1000000)), 0) \o <<"M">>
     ELSE IF Ge(value, Num(10000))
        THEN IntToString(Nearest(Div(value, Num(1000)))) \o <<"k">>
     ELSE IF Ge(value, Num(1000))
        THEN OneDecimalTrimmed(Div(value, Num(1000))) \o <<"k">>
     ELSE IF Ge(value, One) THEN IntToString(Nearest(value))
     ELSE IF Ge(value, Fin(1, 10)) THEN Decimals(value, 2)
     ELSE <<"0">>)

\* C8: for value >= 0 formatCurrency returns the symbol followed by the
\* output of the first matching band; with "$", 999 gives "$999", 1500 gives
\* "$1.5k", 12000 gives "$12k", 1500000 gives "$2M", 2000000000 gives "$2B".
C8_FormatCurrencyBands ==
    (fn = "formatCurrency" /\ Ge(args.value, Zero)) =>
        /\ ret.text = MoneyBands(args.value, args.symbol)
        /\ args.symbol = <<"$">> =>
            /\ args.value = Num(999) => ret.text = <<"$", "9", "9", "9">>
            /\ args.value = Num(1500) => ret.text = <<"$", "1", ".", "5", "k">>
            /\ args.value = Num(12000) => ret.text = <<"$", "1", "2", "k">>
            /\ args.value = Num(1500000) => ret.text = <<"$", "2", "M">>
            /\ args.value = Num(2000000000) => ret.text = <<"$", "2", "B">>

C8_Witness ==
    /\ fn = "formatCurrency"
    /\ args.value = Num(1500000)
    /\ ret.text = <<"$", "2", "M">>

\* C9: for totalSeconds >= 1 formatTime writes an integer >= 1 before the
\* unit letter s, m, h, d, w or y.
C9_NoZeroCount ==
    (fn = "formatTime" /\ Ge(args.totalSeconds, One)) =>
        /\ Len(ret.text) >= 2
        /\ Last(ret.text) \in {"s", "m", "h", "d", "w", "y"}
        /\ \A i \in 1..(Len(ret.text) - 1) : IsDigit(ret.text[i])
        /\ ret.text[1] # "0"
        /\ ParseNat(Front(ret.text)) >= 1

C9_Witness ==
    /\ fn = "formatTime"
    /\ args.totalSeconds = Num(5400000)
    /\ ret.text = <<"1", "y">>

\* the tier of the unit letter a formatted time ends in
UnitTier(text) ==
    CASE Last(text) = "s" -> "tier-1"
      [] Last(text) = "m" -> "tier-2"
      [] Last(text) = "h" -> "tier-3"
      [] Last(text) = "d" -> "tier-4"
      [] Last(text) \in {"w", "y"} -> "tier-5"

\* C10: for displaySeconds >= 1 the tier of getTimeTier is the one of the unit
\* formatTime ends in (s: tier-1, m: tier-2, h: tier-3, d: tier-4, w and y:
\* tier-5), so getCellDisplay in time mode returns a text and a tier that agree.
C10_TierMatchesUnit ==
    /\ TimeCall =>
        \A c \in calls :
            (c.fn = "formatTime" /\ Ge(c.arg, One)) => ret.tier = UnitTier(ret.text)
    /\ (fn = "formatTime" /\ Ge(args.totalSeconds, One)) =>
        getTimeTier(args.totalSeconds) = UnitTier(ret.text)
    /\ (fn = "getTimeTier" /\ Ge(args.displaySeconds, One)) =>
        ret.tier = UnitTier(formatTime(args.displaySeconds))

C10_Witness ==
    /\ TimeCall
    /\ args.freqMultiplier = Num(12)
    /\ args.timeSeconds = Num(1800)
    /\ args.period = "annual"
    /\ ret.text = <<"1", "d">>
    /\ ret.tier = "tier-4"

====
